---------------------------- MODULE Spec2Model ----------------------------
(***************************************************************************)
(* The ingestion pipeline of RAG/ingest.py: IngestionPipeline.parse_pdf    *)
(* and IngestionPipeline.ingest_with_gemini, run against a Neo4j concept   *)
(* graph (Concept nodes, RELATED_TO edges) and a Neo4j vector index        *)
(* (Chunk nodes).                                                          *)
(*                                                                         *)
(* One ingest call is a sequence of steps, one per external call of the    *)
(* method: parse_pdf, extraction_chain.invoke, Neo4jVector.from_texts, one *)
(* graph.query per entity, one graph.query per relationship, the return.   *)
(* Every external call other than parse_pdf may raise; the method catches  *)
(* nothing, so the exception ends the call.  parse_pdf catches its own     *)
(* exceptions and returns an error message as the text.                    *)
(***************************************************************************)
EXTENDS Integers, Sequences, FiniteSets

\* ------------------------------------------------------------ bounds
\* Chunk nodes the vector index holds at most: no call begins once it holds
\* that many, so at most that many calls get as far as the merge.
MaxChunks == 2
\* Longest entity list and relationship list an extraction returns.
MaxEntities == 2
MaxRels == 1

\* ------------------------------------------------------------ inputs
Names == {"Photosynthesis", "Glucose"}
Types == {"Process", "Substance"}
Kinds == {"PRODUCES"}
\* The kinds an edge of the store can have.
StoreKinds == {"PRODUCES", "PART_OF"}
Procs == {1, 2}
\* The calls of the sequential specifications are all made by one caller.
SeqProcs == {1}

\* class Entity, class Relationship, class KnowledgeGraph
Entity == [name : Names, type : Types]
Relationship == [source : Names, target : Names, relation : Kinds]
SeqsUpTo(S, n) == UNION {[1..k -> S] : k \in 0..n}
KnowledgeGraph ==
    [entities : SeqsUpTo(Entity, MaxEntities),
     relationships : SeqsUpTo(Relationship, MaxRels)]
NoGraph == [entities |-> <<>>, relationships |-> <<>>, none |-> TRUE]
NoResult == [none |-> TRUE]
NoStore == [none |-> TRUE]

\* The texts parse_pdf returns: the joined elements, or its error message.
ParsedText == "parsed_text"
ParseErrorText == "An error occurred during parsing"
NoText == "none"

Triples == [source : Names, target : Names, relation : StoreKinds]

VARIABLES
    nodes,      \* Concept nodes: name -> the types of the nodes of that name
    edges,      \* RELATED_TO edges: (source, target, relation) -> how many
    chunks,     \* Chunk nodes of the vector index: how many
    strict,     \* the strictness the pipeline is said to be configured with
    pc,         \* per call: where the method is
    text,       \* per call: markdown_text
    graph,      \* per call: graph_data
    idx,        \* per call: position of the running for loop
    failedAt,   \* per call: the step whose exception ended the call
    result,     \* per call: what the call printed and returned
    doc,        \* the graph extracted for the document being (re-)ingested
    once,       \* the store one ingest of the document without exception leaves
    prior       \* how the call before ended, when this one re-ingests its document

vars == <<nodes, edges, chunks, strict, pc, text, graph, idx,
          failedAt, result, doc, once, prior>>

\* ------------------------------------------------------------ the store
\* MERGE (e:Concept {name: $name}) SET e.type = $type
\* MERGE matches every Concept node of that name, or creates one when
\* there is none; SET then writes the type of every node it bound.
\* Variant: CREATE in place of MERGE.
UpsertConceptCreate(ns, name, type) ==
    [ns EXCEPT ![name] = Append(@, type)]

\* Variant: ON CREATE SET in place of SET.
UpsertConceptOnCreateSet(ns, name, type) ==
    IF ns[name] = <<>> THEN [ns EXCEPT ![name] = <<type>>] ELSE ns

UpsertConcept(ns, name, type) ==
    IF ns[name] = <<>>
    THEN [ns EXCEPT ![name] = <<type>>]
    ELSE [ns EXCEPT ![name] = [i \in 1..Len(@) |-> type]]

\* MATCH (source:Concept {name: $source_name})
\* MATCH (target:Concept {name: $target_name})
\* MERGE (source)-[r:RELATED_TO {type: $rel_type}]->(target)
\* With no node bound by either MATCH the query has no rows: it writes
\* nothing and raises nothing.
Matched(ns, rel) == ns[rel.source] # <<>> /\ ns[rel.target] # <<>>

\* Variant: the edge written without the two MATCH clauses binding a node.
UpsertRelationNoMatch(ns, es, rel) ==
    IF es[rel] = 0 THEN [es EXCEPT ![rel] = 1] ELSE es

\* Variant: CREATE in place of MERGE.
UpsertRelationCreate(ns, es, rel) ==
    IF Matched(ns, rel) THEN [es EXCEPT ![rel] = @ + 1] ELSE es

\* Variant: MERGE (source)-[r:RELATED_TO]->(target) ON CREATE SET r.type, an
\* edge matched by its two ends whatever its type.
UpsertRelationPairKeyed(ns, es, rel) ==
    IF /\ Matched(ns, rel)
       /\ \A t \in Triples :
             (t.source = rel.source /\ t.target = rel.target) => es[t] = 0
    THEN [es EXCEPT ![rel] = 1]
    ELSE es

UpsertRelation(ns, es, rel) ==
    IF Matched(ns, rel) /\ es[rel] = 0
    THEN [es EXCEPT ![rel] = 1]
    ELSE es

\* Variant: the relationships loop before the entities loop.
PhasesSwapped == <<"relationships", "entities">>

\* The order of the two for loops of ingest_with_gemini.
Phases == <<"entities", "relationships">>

PhaseLen(g, ph) ==
    IF ph = "entities" THEN Len(g.entities) ELSE Len(g.relationships)

\* Where the method is after the loops before phase number k are over: the
\* first loop from k on that has an element, else the print and return.
RECURSIVE PhaseFrom(_, _)
PhaseFrom(g, k) ==
    IF k > Len(Phases) THEN "done"
    ELSE IF PhaseLen(g, Phases[k]) > 0 THEN Phases[k]
    ELSE PhaseFrom(g, k + 1)

PhaseNo(ph) == CHOOSE k \in 1..Len(Phases) : Phases[k] = ph

\* Variant: the relation query merges the whole pattern, MERGE (source:Concept
\* {name})-[r]->(target:Concept {name}), and so makes the ends it does not
\* find, with no type.
QueryNodesMergeEnds(ns, g, ph, i) ==
    IF ph = "entities"
    THEN UpsertConcept(ns, g.entities[i].name, g.entities[i].type)
    ELSE [n \in Names |->
            IF n \in {g.relationships[i].source, g.relationships[i].target}
               /\ ns[n] = <<>>
            THEN <<"">> ELSE ns[n]]

\* Variant: the entity query takes the node of the name away with its edges
\* (DETACH DELETE) before it makes it.
QueryEdgesDetach(ns, es, g, ph, i) ==
    IF ph = "relationships"
    THEN UpsertRelation(ns, es, g.relationships[i])
    ELSE [t \in Triples |->
            IF g.entities[i].name \in {t.source, t.target} THEN 0 ELSE es[t]]

\* One graph.query of the loop `ph`, on element i of its list.
QueryNodes(ns, g, ph, i) ==
    IF ph = "entities"
    THEN UpsertConcept(ns, g.entities[i].name, g.entities[i].type)
    ELSE ns

QueryEdges(ns, es, g, ph, i) ==
    IF ph = "relationships"
    THEN UpsertRelation(ns, es, g.relationships[i])
    ELSE es

\* Both loops of ingest_with_gemini run to their end on a store.
RECURSIVE MergeLoop(_, _, _, _)
MergeLoop(st, g, ph, i) ==
    IF i > PhaseLen(g, ph) THEN st
    ELSE MergeLoop([nodes |-> QueryNodes(st.nodes, g, ph, i),
                    edges |-> QueryEdges(st.nodes, st.edges, g, ph, i)],
                   g, ph, i + 1)

RECURSIVE MergeFrom(_, _, _)
MergeFrom(st, g, k) ==
    IF k > Len(Phases) THEN st
    ELSE MergeFrom(MergeLoop(st, g, Phases[k], 1), g, k + 1)

IngestAll(st, g) == MergeFrom(st, g, 1)

Store == [nodes |-> nodes, edges |-> edges]

\* What a reader of the store sees.
ConceptSet(ns) ==
    UNION {{<<n, ns[n][i]>> : i \in 1..Len(ns[n])} : n \in Names}
RelationSet(es) == {t \in Triples : es[t] > 0}

\* ------------------------------------------------------------ one call
\* IngestionPipeline.__init__ opens the graph and builds the extraction
\* chain; it takes no argument, so no strictness is ever handed to it.
InitWith(mode) ==
    /\ nodes = [n \in Names |-> <<>>]
    /\ edges = [t \in Triples |-> 0]
    /\ chunks = 0
    /\ strict = mode
    /\ pc = [p \in Procs |-> "idle"]
    /\ text = [p \in Procs |-> NoText]
    /\ graph = [p \in Procs |-> NoGraph]
    /\ idx = [p \in Procs |-> 0]
    /\ failedAt = [p \in Procs |-> "none"]
    /\ result = [p \in Procs |-> NoResult]
    /\ doc = [p \in Procs |-> NoGraph]
    /\ once = [p \in Procs |-> NoStore]
    /\ prior = [p \in Procs |-> "none"]

Init == InitWith(FALSE)

\* How a call that is over ended: returned, or left by an exception of a
\* graph.query of one of the loops, or by an earlier exception.
Outcome(p) ==
    IF pc[p] = "done" THEN "ok"
    ELSE IF failedAt[p] \in {"entities", "relationships"} THEN failedAt[p]
    ELSE "failed"

\* The caller is in no call: none made yet, or the last one is over.
Free(p) == pc[p] \in {"idle", "done", "failed"}

\* Entry of ingest_with_gemini: the locals of the call before are gone.
Enter(p) ==
    /\ chunks < MaxChunks
    /\ pc' = [pc EXCEPT ![p] = "parse"]
    /\ text' = [text EXCEPT ![p] = NoText]
    /\ graph' = [graph EXCEPT ![p] = NoGraph]
    /\ idx' = [idx EXCEPT ![p] = 0]
    /\ failedAt' = [failedAt EXCEPT ![p] = "none"]
    /\ result' = [result EXCEPT ![p] = NoResult]
    /\ UNCHANGED <<nodes, edges, chunks, strict>>

\* pipeline.ingest_with_gemini(pdf_path) on a new document.
Start(p) ==
    /\ Free(p)
    /\ Enter(p)
    /\ doc' = [doc EXCEPT ![p] = NoGraph]
    /\ once' = [once EXCEPT ![p] = NoStore]
    /\ prior' = [prior EXCEPT ![p] = "none"]

\* pipeline.ingest_with_gemini(pdf_path) again on the document of the call
\* that is just over, when that call got as far as the merge.
Retry(p) ==
    /\ pc[p] \in {"done", "failed"}
    /\ Outcome(p) # "failed"
    /\ Enter(p)
    /\ prior' = [prior EXCEPT ![p] = Outcome(p)]
    /\ UNCHANGED <<doc, once>>

\* markdown_text = self.parse_pdf(input_materials): the text, or, an
\* exception caught, the error message; the call goes on either way.
ParsePdf(p) ==
    /\ pc[p] = "parse"
    /\ \/ text' = [text EXCEPT ![p] = ParsedText]
       \/ text' = [text EXCEPT ![p] = ParseErrorText]
    /\ pc' = [pc EXCEPT ![p] = "extract"]
    /\ UNCHANGED <<nodes, edges, chunks, strict, graph, idx,
                   failedAt, result, doc, once, prior>>

\* An exception of an external call leaves ingest_with_gemini, and its
\* locals are gone; nothing is printed or returned.  What is kept for a
\* re-ingest is kept only when the exception came from a graph.query.
Raise(p) ==
    /\ pc' = [pc EXCEPT ![p] = "failed"]
    /\ failedAt' = [failedAt EXCEPT ![p] = pc[p]]
    /\ text' = [text EXCEPT ![p] = NoText]
    /\ graph' = [graph EXCEPT ![p] = NoGraph]
    /\ idx' = [idx EXCEPT ![p] = 0]
    /\ result' = [result EXCEPT ![p] = NoResult]
    /\ IF pc[p] \in {"entities", "relationships"}
       THEN UNCHANGED <<doc, once, prior>>
       ELSE /\ doc' = [doc EXCEPT ![p] = NoGraph]
            /\ once' = [once EXCEPT ![p] = NoStore]
            /\ prior' = [prior EXCEPT ![p] = "none"]

\* The step after the loop `ph` (0: before the first loop) is over; the
\* print and return of lines 137-139 when no loop is left.
Advance(p, g, k) ==
    LET to == PhaseFrom(g, k + 1) IN
    /\ pc' = [pc EXCEPT ![p] = to]
    /\ idx' = [idx EXCEPT ![p] = IF to = "done" THEN 0 ELSE 1]
    /\ result' = [result EXCEPT ![p] =
                    IF to = "done"
                    THEN [entityCount |-> Len(g.entities),
                          relationCount |-> Len(g.relationships)]
                    ELSE NoResult]

\* Variant: the text is put in the vector index before the extraction chain
\* is invoked.
ExtractGraphAfterIndex(p) ==
    /\ pc[p] = "extract"
    /\ \/ /\ \E g \in (IF doc[p] = NoGraph THEN KnowledgeGraph ELSE {doc[p]}) :
                /\ graph' = [graph EXCEPT ![p] = g]
                /\ doc' = [doc EXCEPT ![p] = g]
                /\ once' = [once EXCEPT ![p] =
                              IF doc[p] = NoGraph
                              THEN IngestAll(Store, g) ELSE @]
          /\ pc' = [pc EXCEPT ![p] = "index"]
          /\ UNCHANGED <<text, idx, failedAt, result, prior, chunks>>
       \/ /\ Raise(p)
          /\ chunks' = chunks + 1
    /\ UNCHANGED <<nodes, edges, strict>>

\* graph_data = self.extraction_chain.invoke({"text": markdown_text})
ExtractGraph(p) ==
    /\ pc[p] = "extract"
    /\ \/ /\ \E g \in (IF doc[p] = NoGraph THEN KnowledgeGraph ELSE {doc[p]}) :
                /\ graph' = [graph EXCEPT ![p] = g]
                /\ doc' = [doc EXCEPT ![p] = g]
                /\ once' = [once EXCEPT ![p] =
                              IF doc[p] = NoGraph
                              THEN IngestAll(Store, g) ELSE @]
          /\ pc' = [pc EXCEPT ![p] = "index"]
          /\ UNCHANGED <<text, idx, failedAt, result, prior>>
       \/ Raise(p)
    /\ UNCHANGED <<nodes, edges, chunks, strict>>

\* Variant: the text is put in the index only when the call before this one
\* did not put it there.
IndexTextOnce(p) ==
    /\ pc[p] = "index"
    /\ \/ /\ chunks' = IF prior[p] = "none" THEN chunks + 1 ELSE chunks
          /\ text' = [text EXCEPT ![p] = NoText]
          /\ Advance(p, graph[p], 0)
          /\ UNCHANGED <<graph, failedAt, doc, once, prior>>
       \/ /\ Raise(p)
          /\ UNCHANGED chunks
    /\ UNCHANGED <<nodes, edges, strict>>

\* Neo4jVector.from_texts([markdown_text], ..., node_label="Chunk"): one more
\* Chunk node, holding the text; markdown_text is not read after it.
IndexText(p) ==
    /\ pc[p] = "index"
    /\ \/ /\ chunks' = chunks + 1
          /\ text' = [text EXCEPT ![p] = NoText]
          /\ Advance(p, graph[p], 0)
          /\ UNCHANGED <<graph, failedAt, doc, once, prior>>
       \/ /\ Raise(p)
          /\ UNCHANGED chunks
    /\ UNCHANGED <<nodes, edges, strict>>

\* Variant: a graph.query that raises takes the store back to empty.
QueryRollback(p, ph) ==
    /\ pc[p] = ph
    /\ \/ /\ nodes' = QueryNodes(nodes, graph[p], ph, idx[p])
          /\ edges' = QueryEdges(nodes, edges, graph[p], ph, idx[p])
          /\ IF idx[p] < PhaseLen(graph[p], ph)
             THEN /\ idx' = [idx EXCEPT ![p] = @ + 1]
                  /\ UNCHANGED <<pc, result>>
             ELSE Advance(p, graph[p], PhaseNo(ph))
          /\ UNCHANGED <<text, graph, failedAt, doc, once, prior>>
       \/ /\ Raise(p)
          /\ nodes' = [n \in Names |-> <<>>]
          /\ edges' = [t \in Triples |-> 0]
    /\ UNCHANGED <<chunks, strict>>

\* One graph.query of a for loop, then the next element or the next step.
Query(p, ph) ==
    /\ pc[p] = ph
    /\ \/ /\ nodes' = QueryNodes(nodes, graph[p], ph, idx[p])
          /\ edges' = QueryEdges(nodes, edges, graph[p], ph, idx[p])
          /\ IF idx[p] < PhaseLen(graph[p], ph)
             THEN /\ idx' = [idx EXCEPT ![p] = @ + 1]
                  /\ UNCHANGED <<pc, result>>
             ELSE Advance(p, graph[p], PhaseNo(ph))
          /\ UNCHANGED <<text, graph, failedAt, doc, once, prior>>
       \/ /\ Raise(p)
          /\ UNCHANGED <<nodes, edges>>
    /\ UNCHANGED <<chunks, strict>>

\* for entity in graph_data.entities: self.graph.query(entity_query, ...)
UpsertEntity(p) == Query(p, "entities")

\* for rel in graph_data.relationships: self.graph.query(rel_query, ...)
UpsertRelationship(p) == Query(p, "relationships")

Step(p) ==
    \/ Start(p)
    \/ Retry(p)
    \/ ParsePdf(p)
    \/ ExtractGraph(p)
    \/ IndexText(p)
    \/ UpsertEntity(p)
    \/ UpsertRelationship(p)

\* Calls made one after the other by one caller.
Next == \E p \in SeqProcs : Step(p)

Spec == Init /\ [][Next]_vars

\* The same pipeline, said to be configured strict.
InitStrict == InitWith(TRUE)

SpecStrict == InitStrict /\ [][Next]_vars

\* ------------------------------------------------------------ in parallel
\* Independent ingest_with_gemini calls run in parallel on one store, each
\* graph.query one atomic step of the store.  The documents are short and
\* name the concepts of one category, so that they share names.
ParType == "Process"
ParGraph ==
    [entities : SeqsUpTo([name : Names, type : {ParType}], MaxEntities - 1),
     relationships : SeqsUpTo(Relationship, MaxRels)]

\* pipeline.ingest_with_gemini(pdf_path), one call per caller.
ParStart(p) ==
    /\ pc[p] = "idle"
    /\ Enter(p)
    /\ UNCHANGED <<doc, once, prior>>

\* graph_data = self.extraction_chain.invoke({"text": markdown_text}), on
\* documents whose graph is one of gs.
ExtractOf(p, gs) ==
    /\ pc[p] = "extract"
    /\ \/ /\ \E g \in gs : graph' = [graph EXCEPT ![p] = g]
          /\ pc' = [pc EXCEPT ![p] = "index"]
          /\ UNCHANGED <<text, idx, failedAt, result, doc, once, prior>>
       \/ Raise(p)
    /\ UNCHANGED <<nodes, edges, chunks, strict>>

ParExtractGraph(p) == ExtractOf(p, ParGraph)

ParStep(p) ==
    \/ ParStart(p)
    \/ ParsePdf(p)
    \/ ParExtractGraph(p)
    \/ IndexText(p)
    \/ UpsertEntity(p)
    \/ UpsertRelationship(p)

ParNext == \E p \in Procs : ParStep(p)

SpecPar == Init /\ [][ParNext]_vars

\* ------------------------------------------------------------ kinds of edge
\* Calls one after another on documents whose relations are of two kinds,
\* the concepts of one category.
KindGraph ==
    [entities : SeqsUpTo([name : Names, type : {ParType}], MaxEntities),
     relationships : SeqsUpTo(Triples, MaxRels)]

\* pipeline.ingest_with_gemini(pdf_path), after the call before it is over.
KindStart(p) ==
    /\ Free(p)
    /\ Enter(p)
    /\ UNCHANGED <<doc, once, prior>>

KindExtractGraph(p) == ExtractOf(p, KindGraph)

KindStep(p) ==
    \/ KindStart(p)
    \/ ParsePdf(p)
    \/ KindExtractGraph(p)
    \/ IndexText(p)
    \/ UpsertEntity(p)
    \/ UpsertRelationship(p)

KindNext == \E p \in SeqProcs : KindStep(p)

SpecKinds == Init /\ [][KindNext]_vars

\* ------------------------------------------------------------ vocabulary
EntityNames(g) == {g.entities[i].name : i \in DOMAIN g.entities}
Rels(g) == {g.relationships[i] : i \in DOMAIN g.relationships}
\* A relation is valid in its graph when both ends are in the entity list.
ValidRel(g, r) == r.source \in EntityNames(g) /\ r.target \in EntityNames(g)
HasInvalidRel(g) == \E r \in Rels(g) : ~ValidRel(g, r)

NoDuplicates ==
    /\ \A n \in Names : Len(nodes[n]) <= 1
    /\ \A t \in Triples : edges[t] <= 1

SameSets(st) ==
    /\ ConceptSet(nodes) = ConceptSet(st.nodes)
    /\ RelationSet(edges) = RelationSet(st.edges)

\* The graph.query calls of loop `ph` that have returned in the call p is
\* in, or has returned from.
Completed(p, ph) ==
    IF pc[p] = "done" THEN PhaseLen(graph[p], ph)
    ELSE IF pc[p] \notin {"entities", "relationships"} THEN 0
    ELSE IF PhaseNo(pc[p]) > PhaseNo(ph) THEN PhaseLen(graph[p], ph)
    ELSE IF PhaseNo(pc[p]) < PhaseNo(ph) THEN 0
    ELSE idx[p] - 1

\* The type of the last of the first k entities that has name n.
LastType(es, k, n) ==
    es[CHOOSE i \in 1..k :
          /\ es[i].name = n
          /\ \A j \in (i + 1)..k : es[j].name # n].type

\* ------------------------------------------------------------ two orders
\* Two documents are ingested by calls that return, in the one order on one
\* copy of a store and in the other order on another copy: once[1] is the
\* store of the order first, second and once[2] that of second, first.  The
\* graphs of the two documents agree on the type of the names both list, and
\* list both ends of each of their relations.
EmptyStore ==
    [nodes |-> [n \in Names |-> <<>>], edges |-> [t \in Triples |-> 0]]

\* Stores that a call before the two has left, on a document of no more than
\* one concept and one relation.
StartStores ==
    {IngestAll(EmptyStore, g) :
        g \in {h \in ParGraph :
                  Len(h.entities) <= 1 /\ Len(h.relationships) <= 1}}

\* The graphs of the first document, and those of the second, a shorter one.
FirstGraph == {g \in KnowledgeGraph : ~HasInvalidRel(g)}
SecondGraph ==
    {g \in [entities : SeqsUpTo(Entity, MaxEntities - 1),
            relationships : SeqsUpTo(Relationship, MaxRels)] :
        ~HasInvalidRel(g)}

Agree(a, b) ==
    \A i \in DOMAIN a.entities, j \in DOMAIN b.entities :
        a.entities[i].name = b.entities[j].name =>
            a.entities[i].type = b.entities[j].type

InitCommute ==
    \E a \in FirstGraph, b \in SecondGraph, st \in StartStores :
        /\ Agree(a, b)
        /\ nodes = st.nodes
        /\ edges = st.edges
        /\ doc = [p \in Procs |-> IF p = 1 THEN a ELSE b]
        /\ once = [p \in Procs |-> st]
        /\ chunks = 0
        /\ strict = FALSE
        /\ pc = [p \in Procs |-> "idle"]
        /\ text = [p \in Procs |-> NoText]
        /\ graph = [p \in Procs |-> NoGraph]
        /\ idx = [p \in Procs |-> 0]
        /\ failedAt = [p \in Procs |-> "none"]
        /\ result = [p \in Procs |-> NoResult]
        /\ prior = [p \in Procs |-> "none"]

\* The documents in the order o ingests them.
Order(o) == IF o = 1 THEN <<1, 2>> ELSE <<2, 1>>

\* The next call of order o, from its entry to its return: both loops on
\* the graph of the document, on the store of that order.  The orders are
\* run one after the other.
IngestNextOf(o) ==
    /\ pc[o] = "idle"
    /\ \A q \in Procs : q < o => pc[q] = "done"
    /\ once' = [once EXCEPT ![o] = IngestAll(@, doc[Order(o)[idx[o] + 1]])]
    /\ idx' = [idx EXCEPT ![o] = @ + 1]
    /\ pc' = [pc EXCEPT ![o] =
                IF idx[o] + 1 = Len(Order(o)) THEN "done" ELSE "idle"]
    /\ UNCHANGED <<nodes, edges, chunks, strict, text, graph, failedAt,
                   result, doc, prior>>

NextCommute == \E o \in Procs : IngestNextOf(o)

SpecCommute == InitCommute /\ [][NextCommute]_vars

\* ------------------------------------------------------------ claims

ReferentialIntegrity ==
    \A p \in Procs :
        pc[p] = "done" =>
            \A t \in Triples :
                edges[t] > 0 => (nodes[t.source] # <<>> /\ nodes[t.target] # <<>>)

\* A call has returned whose graph held a relation that is now an edge,
\* one end of it a concept that an earlier call left in the store.
ReferentialIntegrityWitness ==
    \E p \in Procs :
        /\ pc[p] = "done"
        /\ \E r \in Rels(graph[p]) : edges[r] > 0 /\ ~ValidRel(graph[p], r)

StrictAbortsBeforeWrite ==
    \A p \in Procs :
        (strict /\ HasInvalidRel(graph[p])) =>
            /\ pc[p] # "done"
            /\ Completed(p, "entities") + Completed(p, "relationships") = 0

\* C5. Lenient mode skips only invalid relations: in lenient mode the query
\* of a relation that is not valid in its graph writes no edge, and a call
\* that returns has left every concept of its graph and an edge for every
\* valid relation of it.
LenientSkipsOnlyInvalid ==
    [][\A p \in Procs :
         ~strict =>
            /\ (/\ pc[p] = "relationships"
                /\ ~ValidRel(graph[p], graph[p].relationships[idx[p]]))
                    => edges' = edges
            /\ (pc[p] # "done" /\ pc'[p] = "done") =>
                    /\ \A n \in EntityNames(graph'[p]) : nodes'[n] # <<>>
                    /\ \A r \in Rels(graph'[p]) :
                          ValidRel(graph'[p], r) => edges'[r] > 0]_vars

\* C6. Text extraction failure is terminal: once parse_pdf has failed, the
\* graph extraction is not invoked and the call gets to none of the later
\* steps.
TextExtractionFailureIsTerminal ==
    \A p \in Procs :
        text[p] = ParseErrorText =>
            /\ graph[p] = NoGraph
            /\ pc[p] \notin {"index", "entities", "relationships", "done"}
            /\ ~(pc[p] = "failed" /\ failedAt[p] = "extract")

\* C7. Vector index failure is isolated: an exception of the index write
\* does not end the call.
IndexFailureIsolated ==
    \A p \in Procs : ~(pc[p] = "failed" /\ failedAt[p] = "index")

\* C8. Partial-failure recovery: a call that returns after the previous call
\* of the same document ended in an exception of a graph.query leaves the
\* concept set and relation set of one ingest of the document without
\* exception from the store the first call began with, and no node or edge
\* twice.
RetryAfterPartialFailure ==
    \A p \in Procs :
        (pc[p] = "done" /\ prior[p] \in {"entities", "relationships"}) =>
            (SameSets(once[p]) /\ NoDuplicates)

\* The previous call upserted two concepts and failed at its relation; the
\* call of the same document after it has returned.
RetryAfterPartialFailureWitness ==
    \E p \in Procs :
        /\ pc[p] = "done" /\ prior[p] = "relationships"
        /\ Len(graph[p].entities) = 2
        /\ graph[p].entities[1].name # graph[p].entities[2].name
        /\ \E r \in Rels(graph[p]) : edges[r] = 1

\* C9. Last write wins on type: after the upserts of the first k entities of
\* a graph, each name among them has exactly one concept, and its type is
\* that of the last of the k entities with that name, whatever the store
\* held before.
LastWriteWins ==
    \A p \in Procs :
        graph[p] # NoGraph =>
            LET k == Completed(p, "entities") IN
            \A i \in 1..k :
                LET n == graph[p].entities[i].name IN
                nodes[n] = <<LastType(graph[p].entities, k, n)>>

\* A graph that gives one name two different types has been merged by a
\* call later than the first, and the concept has the type given last.
LastWriteWinsWitness ==
    \E p \in Procs :
        /\ pc[p] = "done" /\ chunks = 2
        /\ Len(graph[p].entities) = 2
        /\ graph[p].entities[1].name = graph[p].entities[2].name
        /\ graph[p].entities[1].type # graph[p].entities[2].type
        /\ nodes[graph[p].entities[2].name] = <<graph[p].entities[2].type>>

\* C10. The result summarizes what was written: a call that returns reports
\* as many entities as it upserted concepts and as many relations as it
\* merged, a relation whose query bound no pair of concepts not counted.
ResultCountsWhatWasMerged ==
    \A p \in Procs :
        pc[p] = "done" =>
            /\ result[p].entityCount = Len(graph[p].entities)
            /\ result[p].relationCount =
                  Cardinality({i \in DOMAIN graph[p].relationships :
                                  Matched(nodes, graph[p].relationships[i])})

\* C11. Concurrent ingestion is safe without application locking: with
\* calls running in parallel and every graph.query atomic, no state has two
\* concepts of a name or two edges of a triple, both ends of every edge are
\* concepts of the store, and every concept named by the document of a call
\* that has returned is in the store.
ConcurrentIngestSafe ==
    /\ NoDuplicates
    /\ \A t \in Triples :
          edges[t] > 0 => (nodes[t.source] # <<>> /\ nodes[t.target] # <<>>)
    /\ \A p \in Procs :
          pc[p] = "done" => \A n \in EntityNames(graph[p]) : nodes[n] # <<>>

\* Two calls are in their merge at once on documents that share a name: one
\* has upserted the concept and is at its relations, the other is about to
\* upsert it.
ConcurrentIngestSafeWitness ==
    /\ pc[1] = "relationships" /\ pc[2] = "entities"
    /\ EntityNames(graph[1]) \cap EntityNames(graph[2]) # {}
    /\ \A n \in EntityNames(graph[1]) : nodes[n] # <<>>

\* C12. Graph extraction failure is fail-fast: no step of a call up to and
\* including the invocation of the extraction chain writes the vector index
\* or the store, and an invocation that returns no graph ends the call as
\* failed at the extraction.
ExtractionFailureWritesNothing ==
    [][\A p \in SeqProcs :
          /\ pc[p] \in {"parse", "extract"} =>
                (nodes' = nodes /\ edges' = edges /\ chunks' = chunks)
          /\ (pc[p] = "extract" /\ pc'[p] # "index") =>
                (pc'[p] = "failed" /\ failedAt'[p] = "extract")]_vars

\* A call has failed at the extraction.
ExtractionFailureWritesNothingWitness ==
    \E p \in SeqProcs : pc[p] = "failed" /\ failedAt[p] = "extract"

\* C13. Store write failure aborts the merge without rollback: a graph.query
\* that raises ends the call as failed at its loop, writes nothing and undoes
\* nothing, so the upserts of the call that returned before it are still in
\* the store; and a failed call makes no further step.
WriteFailureAbortsWithoutRollback ==
    [][\A p \in SeqProcs :
          /\ (pc[p] \in {"entities", "relationships"} /\ pc'[p] = "failed") =>
                /\ nodes' = nodes /\ edges' = edges
                /\ failedAt'[p] = pc[p]
                /\ \A i \in 1..Completed(p, "entities") :
                      nodes'[graph[p].entities[i].name] # <<>>
                /\ \A i \in 1..Completed(p, "relationships") :
                      Matched(nodes, graph[p].relationships[i]) =>
                          edges'[graph[p].relationships[i]] > 0
          /\ pc[p] = "failed" => pc'[p] \in {"failed", "parse"}]_vars

\* A call has failed in its entities loop after an upsert of it: a concept
\* of its document is in the store and another is not.
WriteFailureAbortsWithoutRollbackWitness ==
    \E p \in SeqProcs :
        /\ pc[p] = "failed" /\ failedAt[p] = "entities"
        /\ \E n \in EntityNames(doc[p]) : nodes[n] # <<>>
        /\ \E n \in EntityNames(doc[p]) : nodes[n] = <<>>

\* C14. Concepts before relations: a call that is at its relations, or has
\* made a relation query, has upserted every entity of its graph and each of
\* their names is a concept of the store; a call at its entities has made no
\* relation query, and the entities it has upserted are those listed before
\* the one it is at.
ConceptsBeforeRelations ==
    \A p \in SeqProcs :
        /\ (pc[p] = "relationships" \/ Completed(p, "relationships") > 0) =>
              /\ Completed(p, "entities") = Len(graph[p].entities)
              /\ \A n \in EntityNames(graph[p]) : nodes[n] # <<>>
        /\ pc[p] = "entities" =>
              /\ Completed(p, "relationships") = 0
              /\ \A i \in 1..(idx[p] - 1) :
                    nodes[graph[p].entities[i].name] # <<>>

\* A call that listed two concepts is at the first of its relations.
ConceptsBeforeRelationsWitness ==
    \E p \in SeqProcs :
        /\ pc[p] = "relationships" /\ idx[p] = 1
        /\ Cardinality(EntityNames(graph[p])) > 1

\* C15. A relation upsert with a missing endpoint is an error: a relation
\* query made while the source or the target of the relation is no concept
\* of the store creates no edge and no concept, and ends the call as failed
\* at its relations.
MissingEndpointIsAnError ==
    [][\A p \in SeqProcs :
          (/\ pc[p] = "relationships"
           /\ ~Matched(nodes, graph[p].relationships[idx[p]])) =>
              /\ nodes' = nodes /\ edges' = edges
              /\ pc'[p] = "failed" /\ failedAt'[p] = "relationships"]_vars

\* C16. Edges are keyed by the triple (source, target, kind) and directed: a
\* relation query that returns, made on a relation whose two ends are
\* concepts, leaves the edge of that triple in the store whatever other edges
\* join the two concepts; it leaves every other triple, the reverse one and
\* those of other kinds among them, as it was; made on an edge the store has
\* already, it changes nothing; and it changes no concept.
EdgesKeyedByTriple ==
    [][\A p \in SeqProcs :
          (pc[p] = "relationships" /\ pc'[p] # "failed") =>
              LET r == graph[p].relationships[idx[p]] IN
              /\ Matched(nodes, r) => edges'[r] = 1
              /\ \A t \in Triples \ {r} : edges'[t] = edges[t]
              /\ edges[r] > 0 => edges' = edges
              /\ nodes' = nodes]_vars

\* Two concepts are joined by edges of two kinds from the one to the other,
\* and by no edge back.
EdgesKeyedByTripleWitness ==
    \E s, t \in Names :
        /\ s # t
        /\ \A k \in StoreKinds :
              /\ edges[[source |-> s, target |-> t, relation |-> k]] = 1
              /\ edges[[source |-> t, target |-> s, relation |-> k]] = 0

\* C17. No deletion: no step of a call, whether the call returns or fails,
\* takes a concept or an edge out of the store; every name that has a
\* concept and every triple that has an edge has one after the step.
NoDeletion ==
    [][/\ \A n \in Names : Len(nodes'[n]) >= Len(nodes[n])
       /\ \A t \in Triples : edges'[t] >= edges[t]]_vars

\* A later call on a store that holds an edge has failed in its merge, and
\* the edge is in the store.
NoDeletionWitness ==
    \E p \in SeqProcs :
        /\ pc[p] = "failed" /\ failedAt[p] \in {"entities", "relationships"}
        /\ chunks = MaxChunks
        /\ \E t \in Triples : edges[t] > 0

\* C18. Frame of an ingest: a step changes the concept of a name only when it
\* is the entity query of a call on an entity of that name, and then no
\* edge; it changes the edge of a triple only when it is the relation query
\* of a call on that relation, by adding it, and then no concept; concepts
\* and edges the graph of the call does not list stay as they are.
IngestFrame ==
    [][\A p \in SeqProcs :
          /\ \A n \in Names :
                nodes'[n] # nodes[n] =>
                    /\ pc[p] = "entities"
                    /\ graph[p].entities[idx[p]].name = n
                    /\ edges' = edges
          /\ \A t \in Triples :
                edges'[t] # edges[t] =>
                    /\ pc[p] = "relationships"
                    /\ graph[p].relationships[idx[p]] = t
                    /\ edges[t] = 0
                    /\ nodes' = nodes
          /\ pc[p] = "relationships" => nodes' = nodes]_vars

\* A call whose graph lists one concept and a relation to a concept it does
\* not list has returned, and the other concept has the type an earlier call
\* gave it, another than the type the call gave the one it lists.
IngestFrameWitness ==
    \E p \in SeqProcs :
        /\ pc[p] = "done"
        /\ \E n, m \in Names :
              /\ EntityNames(graph[p]) = {n}
              /\ m # n /\ nodes[m] # <<>> /\ nodes[m] # nodes[n]
              /\ \E r \in Rels(graph[p]) : r.target = m /\ edges[r] = 1

\* C19. Sequential ingests commute under agreement: when the graphs of two
\* documents give the same type to every name both list and list both ends
\* of each of their relations, the store after the first then the second and
\* the store after the second then the first, from one start store, have the
\* same concepts, names and types, and the same edges.
SequentialIngestsCommute ==
    (/\ \A o \in Procs : pc[o] = "done"
     /\ Agree(doc[1], doc[2])
     /\ ~HasInvalidRel(doc[1]) /\ ~HasInvalidRel(doc[2])) =>
        /\ ConceptSet(once[1].nodes) = ConceptSet(once[2].nodes)
        /\ RelationSet(once[1].edges) = RelationSet(once[2].edges)

\* Both orders are over on two documents that share a name and differ, each
\* with a relation of its own that the start store did not hold.
SequentialIngestsCommuteWitness ==
    /\ \A o \in Procs : pc[o] = "done"
    /\ EntityNames(doc[1]) \cap EntityNames(doc[2]) # {}
    /\ EntityNames(doc[1]) # EntityNames(doc[2])
    /\ \E r \in Rels(doc[1]) : edges[r] = 0 /\ r \notin Rels(doc[2])
    /\ \E r \in Rels(doc[2]) : edges[r] = 0 /\ r \notin Rels(doc[1])

=============================================================================
